---- MODULE Spec2Model ----
(***************************************************************************)
(* Model of app/server.py: the Iris classifier HTTP service.               *)
(*                                                                         *)
(* The module-level globals MODEL_NAME, MODEL_VERSION, MODEL_URI and model *)
(* are the serving state.  The four handlers are plain `def` functions, so *)
(* the framework runs each request on a worker thread; a handler is        *)
(* modelled as the sequence of its reads and writes of the globals, one    *)
(* step per read or write, and the steps of different requests interleave. *)
(* The registry (mlflow.pyfunc.load_model) and the loaded predictor        *)
(* (model.predict) are external: their outcomes are chosen                 *)
(* nondeterministically.                                                   *)
(***************************************************************************)
EXTENDS Integers, Sequences, FiniteSets, TLC

\* ---- bounds of the model ----
NThreads       == 2   \* worker threads serving requests
MaxRequests    == 2   \* requests received in one behaviour of concurrent clients
MaxSeqRequests == 3   \* requests received in one behaviour of a sequential client
MaxSamples     == 2   \* longest PredictRequest.samples

Threads == 1..NThreads

\* ---- values ----
InitialVersion == "1"                                  \* line 10
ReqVersions    == {"1", "2", "does-not-exist"}         \* VersionRequest.model_version
Registered     == {"1", "2"}                           \* versions the registry holds

\* line 41
IRIS_LABELS == (0 :> "setosa") @@ (1 :> "versicolor") @@ (2 :> "virginica")

\* f"models:/{name}/{version}" (lines 13, 126, 129): the pieces, concatenated
FormatUri(name, ver) == <<"models:/">> \o <<name>> \o <<"/">> \o <<ver>>

\* the version segment of a model URI, as the registry resolves it
UriVersion(uri) == uri[Len(uri)]

\* the object mlflow.pyfunc.load_model(uri) returns
PyFuncModel(uri) == [loaded_from |-> uri]

\* model.predict([[...]])[0] for the k-th sample of a request.  A request of n
\* samples carries the first n of the schema's example samples (lines 31-33,
\* repeated in that order), whose classes are 0, 1, 2.  The predictor is a
\* function of the loaded artifact: version "1" is the reference classifier,
\* any other version a classifier that answers differently.
PredictorOutput(m, k) ==
    IF UriVersion(m.loaded_from) = InitialVersion THEN (k - 1) % 3 ELSE k % 3

NoException     == [type |-> "none"]
MlflowException == [type |-> "MlflowException", message |-> "load failed"]
ImportError     == [type |-> "ImportError"]

\* what load_model(uri) can raise: an unregistered version always fails with
\* an MlflowException; any load may fail on the network or on the artifact
LoadExceptions(uri) ==
    IF UriVersion(uri) \in Registered
    THEN {MlflowException, ImportError}   \* registry unreachable, unusable artifact
    ELSE {MlflowException}                \* no such version
LoadSucceeds(uri)   == UriVersion(uri) \in Registered

\* getattr(e, "message") exists
HasMessage(e) == "message" \in DOMAIN e

VARIABLES MODEL_NAME, MODEL_VERSION, MODEL_URI, model, frame, history

globals == <<MODEL_NAME, MODEL_VERSION, MODEL_URI, model>>
vars    == <<MODEL_NAME, MODEL_VERSION, MODEL_URI, model, frame, history>>

\* a worker thread with no request
IdleFrame ==
    [pc |-> "idle", kind |-> "none", version |-> "", n |-> 0,
     ids |-> <<>>, labels |-> <<>>, scoredBy |-> <<>>,
     loaded |-> PyFuncModel(<<>>), rdVersion |-> "", newUri |-> <<>>,
     exc |-> NoException, pre |-> <<>>, overlapSet |-> FALSE]

\* the history keeps, per completed request, what the client sent and got, what
\* the external call raised, the ids the handler computed, whether the globals
\* are what they were when the request arrived, and whether a setModelVersion
\* of another client was in flight during it

Active(t)  == frame[t].pc # "idle"
InSet(t)   == frame[t].kind = "setModelVersion"
Received   == Len(history) + Cardinality({t \in Threads : Active(t)})

\* lines 8-14: module import
Init ==
    /\ MODEL_NAME = "iris-classifier"
    /\ MODEL_VERSION = InitialVersion
    /\ MODEL_URI = FormatUri("iris-classifier", InitialVersion)
    /\ model = PyFuncModel(FormatUri("iris-classifier", InitialVersion))
    /\ frame = [t \in Threads |-> IdleFrame]
    /\ history = <<>>

\* ---- responses ----
\* a handler's return value, serialised with status 200
Ok(body) == [code |-> 200, fault |-> "none", body |-> body]
\* an exception leaving the handler: the framework answers 500
Unhandled(type) == [code |-> 500, fault |-> type, body |-> <<>>]

\* ModelResponse(model_name=, model_version=, model_uri=)  (lines 58-61)
ModelResponse(name, ver, uri) ==
    [model_name |-> name, model_version |-> ver, model_uri |-> uri]

\* the request of thread t ends with response resp; the thread is free again
\* (f is the thread's frame as the handler leaves it)
Complete(t, f, resp) ==
    /\ history' = Append(history,
          [kind |-> f.kind, version |-> f.version, n |-> f.n,
           resp |-> resp, exc |-> f.exc, ids |-> f.ids,
           unchanged |-> (globals = f.pre), overlapSet |-> f.overlapSet])
    /\ frame' = [frame EXCEPT ![t] = IdleFrame]

\* a request of the given kind is dispatched to the idle thread t (the workers
\* are interchangeable: the first idle one takes it)
Dispatch(t, kind, pc, ver, n) ==
    /\ ~Active(t)
    /\ \A u \in Threads : u < t => Active(u)
    /\ frame' = [u \in Threads |->
          IF u = t
          THEN [IdleFrame EXCEPT !.pc = pc, !.kind = kind, !.version = ver, !.n = n,
                                 !.pre = globals,
                                 !.overlapSet = \E w \in Threads \ {t} : InSet(w)]
          ELSE IF Active(u) /\ kind = "setModelVersion"
               THEN [frame[u] EXCEPT !.overlapSet = TRUE]
               ELSE frame[u]]
    /\ UNCHANGED <<globals, history>>

StartHealth(t)  == Dispatch(t, "health", "h_return", "", 0)
StartVersion(t) == Dispatch(t, "version", "v_read_version", "", 0)
StartPredict(t) == \E n \in 0..MaxSamples : Dispatch(t, "predict", "p_loop", "", n)
StartSetModelVersion(t) ==
    \E v \in ReqVersions : Dispatch(t, "setModelVersion", "s_load", v, 0)

\* ---- GET /health (lines 70-71) ----
health(t) ==
    /\ frame[t].pc = "h_return"
    /\ Complete(t, frame[t], Ok([status |-> "ok", model_uri |-> MODEL_URI]))
    /\ UNCHANGED globals

\* ---- GET /version (lines 107-112) ----
\* line 110: the read of MODEL_VERSION
VersionReadVersion(t) ==
    /\ frame[t].pc = "v_read_version"
    /\ frame' = [frame EXCEPT ![t].rdVersion = MODEL_VERSION, ![t].pc = "v_read_uri"]
    /\ UNCHANGED <<globals, history>>

\* line 111: the read of MODEL_URI, and the return
VersionReturn(t) ==
    /\ frame[t].pc = "v_read_uri"
    /\ Complete(t, frame[t], Ok(ModelResponse(MODEL_NAME, frame[t].rdVersion, MODEL_URI)))
    /\ UNCHANGED globals

\* ---- POST /predict (lines 80-98) ----
\* variant: the handler reloads the served model from MODEL_URI before scoring
PredictIterate_Reloads(t) ==
    /\ frame[t].pc = "p_loop"
    /\ Len(frame[t].scoredBy) < frame[t].n
    /\ LET m == PyFuncModel(MODEL_URI)
           r == PredictorOutput(m, Len(frame[t].scoredBy) + 1)
       IN frame' = [frame EXCEPT ![t].scoredBy = Append(@, m),
                                 ![t].ids = Append(@, r),
                                 ![t].labels = Append(@, IRIS_LABELS[r])]
    /\ model' = PyFuncModel(MODEL_URI)
    /\ UNCHANGED <<MODEL_NAME, MODEL_VERSION, MODEL_URI, history>>

\* lines 85-93, one iteration whose predictor call returns: the read of the
\* global model, the call, ids.append and labels.append
PredictIterate(t) ==
    /\ frame[t].pc = "p_loop"
    /\ Len(frame[t].scoredBy) < frame[t].n
    /\ LET r == PredictorOutput(model, Len(frame[t].scoredBy) + 1)
       IN frame' = [frame EXCEPT ![t].scoredBy = Append(@, model),
                                 ![t].ids = Append(@, r),
                                 ![t].labels = Append(@, IRIS_LABELS[r])]
    /\ UNCHANGED <<globals, history>>

\* variant: the predictor's exception is caught and the loop goes on
PredictRaise_Swallowed(t) ==
    /\ frame[t].pc = "p_loop"
    /\ Len(frame[t].scoredBy) < frame[t].n
    /\ frame' = [frame EXCEPT ![t].scoredBy = Append(@, model),
                              ![t].exc = [type |-> "PredictorError"]]
    /\ UNCHANGED <<globals, history>>

\* line 85, the predictor call raises: nothing in predict catches it
PredictRaise(t) ==
    /\ frame[t].pc = "p_loop"
    /\ Len(frame[t].scoredBy) < frame[t].n
    /\ Complete(t, [frame[t] EXCEPT !.scoredBy = Append(@, model),
                                    !.exc = [type |-> "PredictorError"]],
                Unhandled("PredictorError"))
    /\ UNCHANGED globals

\* lines 95-98, after the loop: the response is built from two empty lists
PredictReturn(t) ==
    /\ frame[t].pc = "p_loop"
    /\ Len(frame[t].scoredBy) = frame[t].n
    /\ Complete(t, frame[t], Ok([class_id |-> <<>>, class_label |-> <<>>]))
    /\ UNCHANGED globals

\* ---- POST /setModelVersion (lines 121-138) ----
\* lines 125-127: the registry returns a predictor for TRY_MODEL_URI
SetLoadOk(t) ==
    /\ frame[t].pc = "s_load"
    /\ LoadSucceeds(FormatUri(MODEL_NAME, frame[t].version))
    /\ frame' = [frame EXCEPT
          ![t].loaded = PyFuncModel(FormatUri(MODEL_NAME, frame[t].version)),
          ![t].pc = "s_store_model"]
    /\ UNCHANGED <<globals, history>>

\* variant: MODEL_VERSION is assigned before the load is known to succeed
SetLoadRaise_VersionStoredFirst(t) ==
    /\ frame[t].pc = "s_load"
    /\ \E e \in LoadExceptions(FormatUri(MODEL_NAME, frame[t].version)) :
          frame' = [frame EXCEPT ![t].exc = e, ![t].pc = "s_except"]
    /\ MODEL_VERSION' = frame[t].version
    /\ UNCHANGED <<MODEL_NAME, MODEL_URI, model, history>>

\* lines 125-127: load_model raises, control goes to the except clause
SetLoadRaise(t) ==
    /\ frame[t].pc = "s_load"
    /\ \E e \in LoadExceptions(FormatUri(MODEL_NAME, frame[t].version)) :
          frame' = [frame EXCEPT ![t].exc = e, ![t].pc = "s_except"]
    /\ UNCHANGED <<globals, history>>

\* line 127: the assignment to the global model
SetStoreModel(t) ==
    /\ frame[t].pc = "s_store_model"
    /\ model' = frame[t].loaded
    /\ frame' = [frame EXCEPT ![t].pc = "s_store_version"]
    /\ UNCHANGED <<MODEL_NAME, MODEL_VERSION, MODEL_URI, history>>

\* line 128
SetStoreVersion(t) ==
    /\ frame[t].pc = "s_store_version"
    /\ MODEL_VERSION' = frame[t].version
    /\ frame' = [frame EXCEPT ![t].pc = "s_format_uri"]
    /\ UNCHANGED <<MODEL_NAME, MODEL_URI, model, history>>

\* line 129, right-hand side: the f-string reads the globals
SetFormatUri(t) ==
    /\ frame[t].pc = "s_format_uri"
    /\ frame' = [frame EXCEPT ![t].newUri = FormatUri(MODEL_NAME, MODEL_VERSION),
                              ![t].pc = "s_store_uri"]
    /\ UNCHANGED <<globals, history>>

\* variant: line 129 is missing, MODEL_URI keeps its old value
SetStoreUri_Skipped(t) ==
    /\ frame[t].pc = "s_store_uri"
    /\ frame' = [frame EXCEPT ![t].pc = "s_read_version"]
    /\ UNCHANGED <<globals, history>>

\* line 129: the assignment to the global MODEL_URI
SetStoreUri(t) ==
    /\ frame[t].pc = "s_store_uri"
    /\ MODEL_URI' = frame[t].newUri
    /\ frame' = [frame EXCEPT ![t].pc = "s_read_version"]
    /\ UNCHANGED <<MODEL_NAME, MODEL_VERSION, model, history>>

\* line 133: the read of MODEL_VERSION
SetReadVersion(t) ==
    /\ frame[t].pc = "s_read_version"
    /\ frame' = [frame EXCEPT ![t].rdVersion = MODEL_VERSION, ![t].pc = "s_return"]
    /\ UNCHANGED <<globals, history>>

\* lines 131-135: the read of MODEL_URI, and the return
SetReturn(t) ==
    /\ frame[t].pc = "s_return"
    /\ Complete(t, frame[t],
                Ok(ModelResponse(MODEL_NAME, frame[t].rdVersion, MODEL_URI)))
    /\ UNCHANGED globals

\* line 138, e.message exists: the dict is returned (status 200)
SetExceptReturn(t) ==
    /\ frame[t].pc = "s_except"
    /\ HasMessage(frame[t].exc)
    /\ Complete(t, frame[t],
                Ok(("status" :> "error") @@
                   ("status message" :>
                       <<"Unable to load model version - ", frame[t].exc.message>>)))
    /\ UNCHANGED globals

\* line 138, e has no attribute message: AttributeError leaves the handler
SetExceptAttributeError(t) ==
    /\ frame[t].pc = "s_except"
    /\ ~HasMessage(frame[t].exc)
    /\ Complete(t, frame[t], Unhandled("AttributeError"))
    /\ UNCHANGED globals

\* a step of a request already received
Handle(t) ==
    \/ health(t)
    \/ VersionReadVersion(t)
    \/ VersionReturn(t)
    \/ PredictIterate(t)
    \/ PredictRaise(t)
    \/ PredictReturn(t)
    \/ SetLoadOk(t)
    \/ SetLoadRaise(t)
    \/ SetStoreModel(t)
    \/ SetStoreVersion(t)
    \/ SetFormatUri(t)
    \/ SetStoreUri(t)
    \/ SetReadVersion(t)
    \/ SetReturn(t)
    \/ SetExceptReturn(t)
    \/ SetExceptAttributeError(t)

\* requests arrive at any time and are served concurrently
Next ==
    \E t \in Threads :
        \/ Received < MaxRequests /\ StartHealth(t)
        \/ Received < MaxRequests /\ StartVersion(t)
        \/ Received < MaxRequests /\ StartPredict(t)
        \/ Received < MaxRequests /\ StartSetModelVersion(t)
        \/ Handle(t)

Spec == Init /\ [][Next]_vars

\* sequential clients: a request is sent only when no other is in flight
NoneActive == \A u \in Threads : ~Active(u)

SeqNext ==
    \E t \in Threads :
        \/ NoneActive /\ Received < MaxSeqRequests /\ StartHealth(t)
        \/ NoneActive /\ Received < MaxSeqRequests /\ StartVersion(t)
        \/ NoneActive /\ Received < MaxSeqRequests /\ StartPredict(t)
        \/ NoneActive /\ Received < MaxSeqRequests /\ StartSetModelVersion(t)
        \/ Handle(t)

SeqSpec == Init /\ [][SeqNext]_vars

\* ======================= properties =======================
Completed     == DOMAIN history
Readers       == {"health", "predict", "version"}
IsSet(e)      == e.kind = "setModelVersion"
LoadFailed(e) == IsSet(e) /\ e.exc.type # "none"
LoadedOk(e)   == IsSet(e) /\ e.exc.type = "none"
Is2xx(code)   == code \in 200..299

\* the predictor and the URI both belong to the recorded version
PredictorMatchesVersion == model = PyFuncModel(FormatUri(MODEL_NAME, MODEL_VERSION))
UriMatchesVersion       == MODEL_URI = FormatUri(MODEL_NAME, MODEL_VERSION)

\* the version served once the first k completed requests are over
ServedAfter(k) ==
    LET S == {j \in 1..k : LoadedOk(history[j])}
    IN IF S = {} THEN InitialVersion
       ELSE history[CHOOSE j \in S : \A m \in S : m <= j].version

\* C1: whenever a predict, version or health request is in flight, the state it
\* can read pairs the global model with the recorded MODEL_VERSION: model is
\* the predictor loaded for MODEL_VERSION.
C1_ReadersSeePredictorOfVersion ==
    (\E t \in Threads : Active(t) /\ frame[t].kind \in Readers)
        => PredictorMatchesVersion

\* C2: a setModelVersion whose load fails leaves MODEL_VERSION, MODEL_URI and
\* model exactly as they were when the request arrived, at the except clause
\* and at the return, and a /version request that follows returns the version
\* and URI served before.
C2_FailedLoadLeavesState ==
    /\ \A t \in Threads :
          (InSet(t) /\ frame[t].exc.type # "none") => globals = frame[t].pre
    /\ \A i \in Completed :
          LoadFailed(history[i]) =>
             /\ history[i].unchanged
             /\ (i + 1 \in Completed /\ history[i + 1].kind = "version") =>
                   /\ history[i + 1].resp.code = 200
                   /\ history[i + 1].resp.body.model_version = ServedAfter(i - 1)
                   /\ history[i + 1].resp.body.model_uri =
                         <<"models:/", "iris-classifier", "/", ServedAfter(i - 1)>>

\* a failed switch away from version 2, followed by /version
C2_Witness ==
    \E i \in Completed :
        /\ LoadFailed(history[i])
        /\ ServedAfter(i - 1) = "2"
        /\ i + 1 \in Completed
        /\ history[i + 1].kind = "version"

\* C3: in every state, between the assignments of setModelVersion too,
\* MODEL_URI is "models:/" + MODEL_NAME + "/" + MODEL_VERSION, and every
\* /version response carries a model_uri built from its model_version.
C3_UriAlwaysDerivedFromVersion ==
    /\ UriMatchesVersion
    /\ \A i \in Completed :
          (history[i].kind = "version" /\ history[i].resp.code = 200) =>
             history[i].resp.body.model_uri =
                FormatUri(history[i].resp.body.model_name,
                          history[i].resp.body.model_version)

\* C4: a /predict request of N > 0 samples whose predictor calls all returned
\* ids of the mapping is answered with class_id and class_label of length N,
\* class_id[k] the predictor's output for sample k and class_label[k] its label.
C4_PredictResponseAligned ==
    \A i \in Completed :
        LET e == history[i] IN
        (/\ e.kind = "predict" /\ e.n > 0 /\ e.exc.type = "none"
         /\ Len(e.ids) = e.n
         /\ \A k \in DOMAIN e.ids : e.ids[k] \in DOMAIN IRIS_LABELS)
        => /\ e.resp.code = 200
           /\ Len(e.resp.body.class_id) = e.n
           /\ Len(e.resp.body.class_label) = e.n
           /\ \A k \in 1..e.n :
                 /\ e.resp.body.class_id[k] = e.ids[k]
                 /\ e.resp.body.class_label[k] = IRIS_LABELS[e.resp.body.class_id[k]]

\* C5: a setModelVersion whose load fails is answered, whatever was raised,
\* with a non-2xx status and the payload {status: "error", status_message: ...},
\* and no exception leaves the handler.
C5_FailedLoadStructuredError ==
    \A i \in Completed :
        LoadFailed(history[i]) =>
           /\ history[i].resp.fault = "none"
           /\ ~Is2xx(history[i].resp.code)
           /\ DOMAIN history[i].resp.body = {"status", "status_message"}
           /\ history[i].resp.body["status"] = "error"

\* C6: with sequential requests, a successful setModelVersion to V answers with
\* model_version V and model_uri "models:/iris-classifier/V", a /version right
\* after it returns the same, and a /version right before it returns the
\* version served until then.
C6_VersionFollowsSuccessfulSet ==
    \A i \in Completed :
        LoadedOk(history[i]) =>
           LET V    == history[i].version
               want == ModelResponse("iris-classifier", V,
                                     <<"models:/", "iris-classifier", "/", V>>)
           IN /\ history[i].resp.code = 200
              /\ history[i].resp.body = want
              /\ (i + 1 \in Completed /\ history[i + 1].kind = "version") =>
                    /\ history[i + 1].resp.code = 200
                    /\ history[i + 1].resp.body = want
              /\ (i - 1 \in Completed /\ history[i - 1].kind = "version") =>
                    /\ history[i - 1].resp.code = 200
                    /\ history[i - 1].resp.body =
                          ModelResponse("iris-classifier", ServedAfter(i - 1),
                             <<"models:/", "iris-classifier", "/", ServedAfter(i - 1)>>)

\* /version, a switch to another version, /version
C6_Witness ==
    \E i \in Completed :
        /\ LoadedOk(history[i])
        /\ history[i].version # InitialVersion
        /\ i - 1 \in Completed /\ history[i - 1].kind = "version"
        /\ i + 1 \in Completed /\ history[i + 1].kind = "version"

\* C7: once two or more overlapping setModelVersion requests for different
\* versions have all completed successfully, the serving state is the tuple of
\* one of them: model and MODEL_URI both belong to the final MODEL_VERSION.
C7_ConcurrentSetsLeaveOneTuple ==
    LET S == {i \in Completed : IsSet(history[i])} IN
    (/\ NoneActive
     /\ Cardinality(S) >= 2
     /\ \A i \in S : LoadedOk(history[i]) /\ history[i].overlapSet
     /\ \A i, j \in S : i # j => history[i].version # history[j].version)
    => /\ PredictorMatchesVersion
       /\ UriMatchesVersion
       /\ \E i \in S : MODEL_VERSION = history[i].version

\* C8: a /predict request in which a predictor call raised ends with an error
\* response: it is never answered 2xx, and it does not go on to later samples.
C8_PredictorFailureIsError ==
    /\ \A t \in Threads :
          (Active(t) /\ frame[t].kind = "predict") => frame[t].exc.type = "none"
    /\ \A i \in Completed :
          (history[i].kind = "predict" /\ history[i].exc.type # "none") =>
             /\ ~Is2xx(history[i].resp.code)
             /\ history[i].resp.fault # "none"

\* the predictor raised on the second sample of a request
C8_Witness ==
    \E i \in Completed :
        /\ history[i].kind = "predict"
        /\ history[i].exc.type # "none"
        /\ history[i].n = 2
        /\ Len(history[i].ids) = 1

\* C9: a step that changes MODEL_VERSION, MODEL_URI or model is a step of a
\* setModelVersion request; steps of /health, /version and /predict, and the
\* completion of any request, leave all four globals as they are; MODEL_NAME
\* never changes.
C9_OnlySetModelVersionWrites ==
    [][/\ MODEL_NAME' = MODEL_NAME
       /\ (globals' # globals) =>
             \E t \in Threads : InSet(t) /\ frame'[t].pc # frame[t].pc
       /\ \A t \in Threads :
             (frame[t].kind \in Readers /\ frame'[t].pc # frame[t].pc)
                => globals' = globals]_vars

\* a /predict that scored a sample and then failed has completed, and a
\* setModelVersion has switched the version
C9_Witness ==
    /\ MODEL_VERSION # InitialVersion
    /\ \E i \in Completed :
          /\ history[i].kind = "predict"
          /\ history[i].exc.type # "none"
          /\ Len(history[i].ids) > 0

\* C10: all samples of one /predict request are scored by one predictor.
C10_OnePredictorPerRequest ==
    \A t \in Threads :
        \A j, k \in DOMAIN frame[t].scoredBy :
            frame[t].scoredBy[j] = frame[t].scoredBy[k]
====
